---- MODULE Spec2Model ----
(***************************************************************************)
(* context-keeper: the tool-augmented conversation loop and its hosts.     *)
(*                                                                         *)
(* The graph  llm -> should_continue -> call_tool -> llm  is the same in   *)
(* notebooks/test2_tool_usage.py, test3_memory.py, test4_summary_memory.py *)
(* and src/ui/app.py; the four programs differ in the host around          *)
(* app.invoke: what conversation is passed in, what is stored afterwards,  *)
(* and what happens when a call raises.                                    *)
(*   "tool"    test2: every run starts from the single new user turn       *)
(*   "memory"  test3: conversation_history kept across turns               *)
(*   "summary" test4: as test3, plus the threshold summarizer              *)
(*   "ui"      app.py: st.session_state.messages, try/except round a turn  *)
(***************************************************************************)
EXTENDS Naturals, Sequences, FiniteSets

\* ------------------------------------------------------------------ bounds
\* Tool-call declarations one completion response may carry.
MaxCalls == 2
\* Completion responses with tool calls the client gives in one session.
MaxToolRounds == 2
\* Summarizations in one session of the summary variant.
MaxSummaries == 2
\* Stored turns beyond which the memory and UI variants take no new input.
MaxHist == 6
\* Blocks of a structured content handed to the content extraction on its own.
MaxBlocks == 2

\* ------------------------------------------------------- program constants
MEMORY_THRESHOLD == 12

Variants == {"tool", "memory", "summary", "ui"}
\* "looping": every completion response declares a tool call.
\* "halting": the responses are free, and at last carry no tool call.
Clients == {"looping", "halting"}
\* How the completion client of a session shapes the content of its responses:
\* a plain string, or a list of blocks [{'type': 'text', 'text': ...}].
Formats == {"plain", "blocks"}
\* Texts the summarization call may return.
SummaryTexts == {"s1", "s2"}

VARIABLES
    variant,     \* which program runs
    client,      \* behaviour of the completion client in this session
    history,     \* conversation_history / st.session_state.messages
    inputs,      \* inputs["messages"] of the current or last app.invoke
    messages,    \* state["messages"] of the graph; final_state['messages'] after
    pc,          \* position of the single thread of control
    llm_calls,   \* completion calls of model_with_tools in the current run
    tool_steps,  \* activations of the call_tool node in the current run
    tool_execs,  \* tool executions in the current run
    sum_calls,   \* summarization calls issued by the latest threshold check
    summaries,   \* summarizations in the session
    rounds,      \* completion responses with tool calls in the session
    failed_at,   \* where the latest turn raised, "none" if it did not
    ui_case,     \* branch the UI handler took after the latest run
    format,      \* shape of the contents the completion client returns
    summary_text,       \* summary_text
    summarizer_prompt,  \* summarizer_prompt of the summarization under way or just done
    probe        \* a message handed to the content extraction, and what came back

vars == <<variant, client, history, inputs, messages, pc, llm_calls, tool_steps,
          tool_execs, sum_calls, summaries, rounds, failed_at, ui_case,
          format, summary_text, summarizer_prompt, probe>>

\* ---------------------------------------------------------------- contents
\* A message content is a string or a list whose elements are dicts or strings.
\* Str(t) is the string t; Repr(bs) is the string str() makes of the list bs.
Str(t) == [kind |-> "str", text |-> t, blocks |-> <<>>]

List(bs) == [kind |-> "list", text |-> "", blocks |-> bs]

Repr(bs) == [kind |-> "repr", text |-> "", blocks |-> bs]

\* {'type': 'text', 'text': t}, a dict without a 'text' key, a bare string.
TextBlock(t) == [kind |-> "dict", has_text |-> TRUE, text |-> t]

OtherBlock == [kind |-> "dict", has_text |-> FALSE, text |-> ""]

StringElement(t) == [kind |-> "str", has_text |-> FALSE, text |-> t]

\* block.get('text', '')
GetText(block) == IF block.has_text THEN block.text ELSE ""

\* str(content)
str(content) == IF content.kind = "list" THEN Repr(content.blocks) ELSE content

\* The content the session's completion client gives for the text t.
ResponseContent(t) == IF format = "blocks" THEN List(<<TextBlock(t)>>) ELSE Str(t)

\* ---------------------------------------------------------------- messages
HumanMessage ==
    [role |-> "user", content |-> Str("input"), tool_calls |-> <<>>, tool_call_id |-> 0]

\* A response of the completion client declaring n tool calls, identified 1..n.
AIMessage(n) ==
    [role |-> "assistant", content |-> ResponseContent("text"),
     tool_calls |-> [i \in 1..n |-> i], tool_call_id |-> 0]

ToolMessage(id) ==
    [role |-> "tool", content |-> Str("result"), tool_calls |-> <<>>, tool_call_id |-> id]

SystemMessage(c) ==
    [role |-> "system", content |-> c, tool_calls |-> <<>>, tool_call_id |-> 0]

SYSTEM_PROMPT == SystemMessage(Str("prompt"))

\* get_ai_response_content(ai_message), test4_summary_memory.py
LastBlockText(ai_message) ==
    LET content == ai_message.content
    IN  IF content.kind = "list" /\ content.blocks # <<>>
        THEN Str(GetText(content.blocks[Len(content.blocks)]))
        ELSE str(content)

get_ai_response_content(ai_message) ==
    LET content == ai_message.content
    IN  IF content.kind = "list" /\ content.blocks # <<>> /\ content.blocks[1].kind = "dict"
        THEN Str(GetText(content.blocks[1]))
        ELSE IF content.kind = "str"
             THEN content
             ELSE str(content)

\* get_content_from_message(message), ui/app.py
get_content_from_message(message) ==
    IF message.role # "assistant"
    THEN message.content
    ELSE LET content == message.content
         IN  IF content.kind = "list" /\ content.blocks # <<>>
                    /\ content.blocks[1].kind = "dict"
             THEN Str(GetText(content.blocks[1]))
             ELSE str(content)

\* f"This is a summary of the previous conversasion: {summary_text}"
SUMMARY_PREFIX == "This is a summary of the previous conversasion: "

SummaryTurn(s) == SystemMessage(Str(SUMMARY_PREFIX \o s.text))

\* The summary turn of the latest summarization.
SummaryMessage == SummaryTurn(summary_text)

IsPrefix(s, t) == Len(s) <= Len(t) /\ SubSeq(t, 1, Len(s)) = s

Last(s) == s[Len(s)]

\* ------------------------------------------------------------------- graph
\* Annotated[list, operator.add]: a node's update is concatenated to the state.
AddReplaces(old, update) == update

AddDuplicates(old, update) == old \o update \o update

add(old, update) == old \o update

\* workflow.set_entry_point("llm")
EntryPoint == "llm"

\* should_continue(state): the router on the last message.
AlwaysEnd(state) == "__end__"

NeverEnd(state) == "call_tool"

should_continue(state) ==
    IF Last(state).role = "assistant" /\ Last(state).tool_calls # <<>>
    THEN "call_tool"
    ELSE "__end__"

\* add_conditional_edges("llm", should_continue, {...}): the node a label leads to.
ConditionalEdge(label) == IF label = "call_tool" THEN "call_tool" ELSE "END"

\* workflow.add_edge("call_tool", "llm")
ToolEdgeToRouter == "should_continue"

ToolEdge == "llm"

\* ToolNode(tools) on the last message: one result per declared call, in order.
\* The result text stands for whatever the tool returned; a failure that leaves
\* the node as an exception is the action Raise.
FirstCallOnly(last) ==
    IF last.tool_calls = <<>> THEN <<>> ELSE <<ToolMessage(last.tool_calls[1])>>

ReversedResults(last) ==
    [i \in 1..Len(last.tool_calls) |->
        ToolMessage(last.tool_calls[Len(last.tool_calls) + 1 - i])]

ToolNode(last) ==
    [i \in 1..Len(last.tool_calls) |-> ToolMessage(last.tool_calls[i])]

\* -------------------------------------------------------------------- host
Stored == {"memory", "summary", "ui"}

Notebook == {"tool", "memory", "summary"}

\* Where a call to a collaborator blocks, and so may raise.
Blocking ==
    {"llm", "call_tool"}
        \cup (IF variant = "summary" THEN {"summarize"} ELSE {})
        \cup (IF variant = "ui" THEN {"END"} ELSE {})

\* len(conversation_history) >= MEMORY_THRESHOLD
StrictlyAbove(h) == Len(h) > MEMORY_THRESHOLD

NeedsSummary(h) == Len(h) >= MEMORY_THRESHOLD

\* conversation_history = [SystemMessage(...summary...)]
SummaryAppended(h, s) == Append(h, SummaryTurn(s))

Summarized(h, s) == <<SummaryTurn(s)>>

\* The loop over conversation_history that builds dialog_text: a line
\* "Human: ..." for a HumanMessage, "AI: ..." for an AIMessage, nothing otherwise.
\* The text is kept as the sequence of its lines.
RECURSIVE DialogTextAllTurns(_)
DialogTextAllTurns(conv) ==
    IF conv = <<>>
    THEN <<>>
    ELSE LET msg == Head(conv)
             line == IF msg.role = "user"
                     THEN <<[speaker |-> "Human", text |-> msg.content]>>
                     ELSE IF msg.role = "assistant"
                          THEN <<[speaker |-> "AI", text |-> get_ai_response_content(msg)]>>
                          ELSE <<[speaker |-> msg.role, text |-> msg.content]>>
         IN  line \o DialogTextAllTurns(Tail(conv))

RECURSIVE DialogText(_)
DialogText(conv) ==
    IF conv = <<>>
    THEN <<>>
    ELSE LET msg == Head(conv)
             line == IF msg.role = "user"
                     THEN <<[speaker |-> "Human", text |-> msg.content]>>
                     ELSE IF msg.role = "assistant"
                          THEN <<[speaker |-> "AI", text |-> get_ai_response_content(msg)]>>
                          ELSE <<>>
         IN  line \o DialogText(Tail(conv))

SUMMARIZER_INSTRUCTION ==
    "You are a conversation summarizer. Summarize the following dialogue into one concise Korean sentence, incorporating the previous summary if provided."

\* summarizer_prompt = [SystemMessage(instruction), HumanMessage(dialog_text)]
PromptWithSummary(conv, previous) ==
    [system |-> SUMMARIZER_INSTRUCTION,
     human |-> <<[speaker |-> "summary", text |-> previous]>> \o DialogText(conv)]

SummarizerPrompt(conv, previous) ==
    [system |-> SUMMARIZER_INSTRUCTION, human |-> DialogText(conv)]

\* No summarization under way.
NoPrompt == [system |-> "", human |-> <<>>]

\* Nothing handed to the content extraction.
NoProbe ==
    [msg |-> SystemMessage(Str("")), nb |-> Str(""), ui |-> Str(""),
     nb_done |-> FALSE, ui_done |-> FALSE]

\* conversation_history = final_state['messages']
OnlyNewTurns(before, final) == SubSeq(final, Len(before) + 1, Len(final))

StoreFinal(before, final) == final

\* The stored conversation once an except clause of the UI handler has run.
KeepPartial(stored, partial) == partial

DropUserTurn(stored, partial) == SubSeq(stored, 1, Len(stored) - 1)

AfterExcept(stored, partial) == stored

Init ==
    /\ variant \in Variants
    /\ client \in Clients
    /\ history = IF variant = "ui" THEN <<SYSTEM_PROMPT>> ELSE <<>>
    /\ inputs = <<>>
    /\ messages = <<>>
    /\ pc = "input"
    /\ llm_calls = 0
    /\ tool_steps = 0
    /\ tool_execs = 0
    /\ sum_calls = 0
    /\ summaries = 0
    /\ rounds = 0
    /\ failed_at = "none"
    /\ ui_case = "none"
    /\ format \in Formats
    /\ summary_text = Str("")
    /\ summarizer_prompt = NoPrompt
    /\ probe = NoProbe

\* The user enters a line other than "exit": it is recorded and the graph starts.
\* summarizer_prompt is rebuilt by every summarization and read by nothing else:
\* the model forgets it here.
UserInput ==
    /\ pc = "input"
    /\ variant \in {"memory", "ui"} => Len(history) < MaxHist
    /\ history' = IF variant \in Stored THEN Append(history, HumanMessage) ELSE history
    /\ inputs' = IF variant \in Stored THEN history' ELSE <<HumanMessage>>
    /\ messages' = add(<<>>, inputs')
    /\ pc' = EntryPoint
    /\ llm_calls' = 0
    /\ tool_steps' = 0
    /\ tool_execs' = 0
    /\ failed_at' = "none"
    /\ ui_case' = "none"
    /\ summarizer_prompt' = NoPrompt
    /\ UNCHANGED <<variant, client, sum_calls, summaries, rounds>>
    /\ UNCHANGED <<format, summary_text, probe>>

\* Node "llm": call_model appends the response of model_with_tools.
CallModel ==
    /\ pc = "llm"
    /\ \E n \in 0..MaxCalls :
        /\ n > 0 => rounds < MaxToolRounds
        /\ client = "looping" => n > 0
        /\ messages' = add(messages, <<AIMessage(n)>>)
        /\ rounds' = IF n > 0 THEN rounds + 1 ELSE rounds
    /\ llm_calls' = llm_calls + 1
    /\ pc' = "should_continue"
    /\ UNCHANGED <<variant, client, history, inputs, tool_steps, tool_execs,
                   sum_calls, summaries, failed_at, ui_case>>
    /\ UNCHANGED <<format, summary_text, summarizer_prompt, probe>>

\* The conditional edge after "llm".
Route ==
    /\ pc = "should_continue"
    /\ pc' = ConditionalEdge(should_continue(messages))
    /\ UNCHANGED <<variant, client, history, inputs, messages, llm_calls, tool_steps,
                   tool_execs, sum_calls, summaries, rounds, failed_at, ui_case>>
    /\ UNCHANGED <<format, summary_text, summarizer_prompt, probe>>

\* Node "call_tool": the tool node runs the calls of the last message.
CallTool ==
    /\ pc = "call_tool"
    /\ messages' = add(messages, ToolNode(Last(messages)))
    /\ tool_steps' = tool_steps + 1
    /\ tool_execs' = tool_execs + Len(ToolNode(Last(messages)))
    /\ pc' = ToolEdge
    /\ UNCHANGED <<variant, client, history, inputs, llm_calls, sum_calls, summaries,
                   rounds, failed_at, ui_case>>
    /\ UNCHANGED <<format, summary_text, summarizer_prompt, probe>>

\* A notebook after app.invoke returned: store, print, check the threshold.
EndTurn ==
    /\ pc = "END"
    /\ variant \in Notebook
    /\ history' = IF variant = "tool" THEN history ELSE StoreFinal(history, messages)
    /\ sum_calls' = 0
    /\ pc' = IF variant = "summary" /\ NeedsSummary(history') THEN "summarize" ELSE "input"
    /\ UNCHANGED <<variant, client, inputs, messages, llm_calls, tool_steps, tool_execs,
                   summaries, rounds, failed_at, ui_case>>
    /\ UNCHANGED <<format, summary_text, summarizer_prompt, probe>>

\* The summarizer: one call of the plain model, then the wholesale replacement.
Summarize ==
    /\ pc = "summarize"
    /\ summaries < MaxSummaries
    /\ sum_calls' = sum_calls + 1
    /\ summaries' = summaries + 1
    /\ summarizer_prompt' = SummarizerPrompt(history, summary_text)
    /\ \E t \in SummaryTexts :
        LET summary_response == [AIMessage(0) EXCEPT !.content = ResponseContent(t)]
        IN  summary_text' = get_ai_response_content(summary_response)
    /\ history' = Summarized(history, summary_text')
    /\ pc' = "input"
    /\ UNCHANGED <<variant, client, inputs, messages, llm_calls, tool_steps, tool_execs,
                   rounds, failed_at, ui_case>>
    /\ UNCHANGED <<format, probe>>

\* The UI handler after app.invoke returned: Case A or Case B, then store.
Render ==
    /\ pc = "END"
    /\ variant = "ui"
    /\ ui_case' = IF Last(messages).tool_calls # <<>> THEN "A" ELSE "B"
    /\ history' = StoreFinal(history, messages)
    /\ pc' = "input"
    /\ UNCHANGED <<variant, client, inputs, messages, llm_calls, tool_steps, tool_execs,
                   sum_calls, summaries, rounds, failed_at>>
    /\ UNCHANGED <<format, summary_text, summarizer_prompt, probe>>

\* A call raises. The UI's except clauses show a message; a notebook dies.
Raise ==
    /\ pc \in Blocking
    /\ failed_at' = pc
    /\ history' = IF variant = "ui" THEN AfterExcept(history, messages) ELSE history
    /\ pc' = IF variant = "ui" THEN "input" ELSE "crashed"
    /\ UNCHANGED <<variant, client, inputs, messages, llm_calls, tool_steps, tool_execs,
                   sum_calls, summaries, rounds, ui_case>>
    /\ UNCHANGED <<format, summary_text, summarizer_prompt, probe>>

\* The user enters "exit".
Exit ==
    /\ pc = "input"
    /\ variant \in Notebook
    /\ pc' = "exit"
    /\ UNCHANGED <<variant, client, history, inputs, messages, llm_calls, tool_steps,
                   tool_execs, sum_calls, summaries, rounds, failed_at, ui_case>>
    /\ UNCHANGED <<format, summary_text, summarizer_prompt, probe>>

Next ==
    \/ UserInput
    \/ CallModel
    \/ Route
    \/ CallTool
    \/ EndTurn
    \/ Summarize
    \/ Render
    \/ Raise
    \/ Exit

Spec == Init /\ [][Next]_vars

\* app.invoke runs the graph to its end: a node that can run does run.
LiveSpec ==
    /\ Spec
    /\ WF_vars(CallModel)
    /\ WF_vars(Route)
    /\ WF_vars(CallTool)

\* ------------------------------------------------- the content extraction
\* The two extraction functions applied to one assistant message on their own.
ProbeTexts == {"", "a", "b"}

ProbeBlocks ==
    {TextBlock("a"), TextBlock("b"), TextBlock(""), OtherBlock, StringElement("a")}

ProbeContents ==
    {Str(t) : t \in ProbeTexts}
        \cup {List(bs) : bs \in UNION {[1..k -> ProbeBlocks] : k \in 0..MaxBlocks}}

ExtractInit ==
    /\ variant = "summary"
    /\ client = "halting"
    /\ history = <<>>
    /\ inputs = <<>>
    /\ messages = <<>>
    /\ pc = "probe"
    /\ llm_calls = 0
    /\ tool_steps = 0
    /\ tool_execs = 0
    /\ sum_calls = 0
    /\ summaries = 0
    /\ rounds = 0
    /\ failed_at = "none"
    /\ ui_case = "none"
    /\ format = "plain"
    /\ summary_text = Str("")
    /\ summarizer_prompt = NoPrompt
    /\ \E c \in ProbeContents :
        probe = [NoProbe EXCEPT !.msg = [AIMessage(0) EXCEPT !.content = c]]

ExtractNotebook ==
    /\ pc = "probe"
    /\ ~probe.nb_done
    /\ probe' = [probe EXCEPT !.nb = get_ai_response_content(probe.msg), !.nb_done = TRUE]
    /\ UNCHANGED <<variant, client, history, inputs, messages, pc, llm_calls, tool_steps,
                   tool_execs, sum_calls, summaries, rounds, failed_at, ui_case,
                   format, summary_text, summarizer_prompt>>

ExtractUI ==
    /\ pc = "probe"
    /\ ~probe.ui_done
    /\ probe' = [probe EXCEPT !.ui = get_content_from_message(probe.msg), !.ui_done = TRUE]
    /\ UNCHANGED <<variant, client, history, inputs, messages, pc, llm_calls, tool_steps,
                   tool_execs, sum_calls, summaries, rounds, failed_at, ui_case,
                   format, summary_text, summarizer_prompt>>

ExtractNext ==
    \/ ExtractNotebook
    \/ ExtractUI

ExtractSpec == ExtractInit /\ [][ExtractNext]_vars

\* ------------------------------------------------------------------ claims
\* Not an exception: the step leaves failed_at alone (Raise records its place).
NoRaise == failed_at' = failed_at

\* The first completion response of the current or latest run, once there is one.
HasFirstResponse == llm_calls >= 1 /\ Len(messages) > Len(inputs)

FirstResponse == messages[Len(inputs) + 1]

\* C1: if the first completion response of a run carries no tool-call declaration,
\* the run never goes on to a tool or a second completion: it ends after exactly
\* one completion call, with no tool execution, and the final conversation is the
\* input conversation followed by exactly one assistant turn.
C1_NoToolCallOneCompletion ==
    (HasFirstResponse /\ FirstResponse.tool_calls = <<>>) =>
        /\ pc \notin {"llm", "call_tool"}
        /\ llm_calls = 1
        /\ tool_steps = 0
        /\ tool_execs = 0
        /\ messages = inputs \o <<AIMessage(0)>>

C1_Witness ==
    /\ pc = "END"
    /\ Len(inputs) > 2
    /\ llm_calls = 1
    /\ Last(messages).tool_calls = <<>>

\* C2: a completion response with one tool-call declaration is followed by exactly
\* one tool execution, whose result is appended, and the tool node always leads to
\* the completion node and the completion node to the termination check; so at each
\* termination check exactly one completion call was issued since the last
\* activation of the tool node (completions = tool activations + 1).
C2_OneToolThenOneCompletion ==
    /\ [](pc = "should_continue" => llm_calls = tool_steps + 1)
    /\ [][(pc = "call_tool" /\ NoRaise) =>
            /\ pc' = "llm"
            /\ tool_steps' = tool_steps + 1
            /\ Len(Last(messages).tool_calls) = 1 =>
                /\ tool_execs' = tool_execs + 1
                /\ messages' = messages \o <<ToolMessage(1)>>]_vars
    /\ [][(pc = "llm" /\ NoRaise) =>
            /\ pc' = "should_continue"
            /\ llm_calls' = llm_calls + 1]_vars

C2_Witness ==
    /\ pc = "should_continue"
    /\ llm_calls = 2
    /\ tool_steps = 1
    /\ tool_execs = 1
    /\ messages[Len(messages) - 1].role = "tool"

C4_ResetToTwo ==
    /\ [](variant = "summary" /\ pc = "llm" /\ llm_calls = 0 /\ sum_calls = 1 =>
            messages = <<SummaryMessage, HumanMessage>>)
    /\ [][(variant = "summary" /\ pc # "summarize") =>
            Len(history') >= Len(history)]_vars

C4_Witness ==
    /\ variant = "summary"
    /\ pc = "llm"
    /\ llm_calls = 0
    /\ sum_calls = 1
    /\ Len(messages) = 2

\* C5: the stored conversation is append-only: every step leaves the stored
\* conversation a prefix of the new one, except the summarizer's replacement.
C5_AppendOnly ==
    [][IsPrefix(history, history') \/ (variant = "summary" /\ pc = "summarize")]_vars

C5_Witness ==
    /\ variant = "ui"
    /\ pc = "input"
    /\ failed_at = "none"
    /\ Len(inputs) >= 4
    /\ history = messages
    /\ Len(history) > Len(inputs)

\* The tool-result turns that follow position i of a conversation without a break.
RECURSIVE ResultsAfter(_, _)
ResultsAfter(conv, i) ==
    IF i < Len(conv) /\ conv[i + 1].role = "tool"
    THEN 1 + ResultsAfter(conv, i + 1)
    ELSE 0

\* Positions of a run's conversation whose turn declares more than one tool call
\* and whose tool node has acted.
MultiCallTurns ==
    {i \in 1..Len(messages) :
        /\ Len(messages[i].tool_calls) > 1
        /\ (i < Len(messages) \/ pc \in {"llm", "END"})}

\* C6 as stated: after a response declaring more than one tool call, only the
\* first declared call is executed and answered; the others leave no trace.
C6_OnlyFirstExecuted ==
    \A i \in MultiCallTurns :
        /\ ResultsAfter(messages, i) = 1
        /\ messages[i + 1] = ToolMessage(messages[i].tool_calls[1])

\* C6 amended: after a response declaring more than one tool call, every declared
\* call is executed and answered by its own tool-result turn, in the order of
\* declaration, before the next completion call; the run's tool executions are as
\* many as the tool-result turns it appended.
C6_EveryCallExecuted ==
    /\ \A i \in MultiCallTurns :
        /\ ResultsAfter(messages, i) = Len(messages[i].tool_calls)
        /\ \A j \in 1..Len(messages[i].tool_calls) :
            messages[i + j] = ToolMessage(messages[i].tool_calls[j])
    /\ (pc \in {"llm", "should_continue", "call_tool", "END"} /\ Len(messages) >= Len(inputs)) =>
        tool_execs = Cardinality({i \in (Len(inputs) + 1)..Len(messages) :
                                    messages[i].role = "tool"})

C6_Witness ==
    /\ pc = "END"
    /\ tool_execs = 2
    /\ tool_steps = 1
    /\ \E i \in MultiCallTurns : i > Len(inputs)

\* C7 as stated: after a tool call failed in the UI and the handler ran, the
\* assistant turn that requested the call is in the stored conversation.
C7_RequestingTurnKept ==
    (variant = "ui" /\ pc = "input" /\ failed_at = "call_tool") =>
        /\ Len(history) >= Len(messages)
        /\ history[Len(messages)] = Last(messages)

\* C7 amended: after a tool call failed in the UI and the handler ran, the stored
\* conversation is the conversation the run started from, ending in the new user
\* turn: the assistant turn that requested the call, like every turn the run
\* produced, was never stored, and nothing is rolled back.
C7_FailedRunNotStored ==
    (variant = "ui" /\ pc = "input" /\ failed_at = "call_tool") =>
        /\ history = inputs
        /\ Last(history) = HumanMessage
        /\ Len(messages) > Len(history)
        /\ IsPrefix(history, messages)
        /\ Last(messages).role = "assistant"
        /\ Last(messages).tool_calls # <<>>

C7_Witness ==
    /\ variant = "ui"
    /\ pc = "input"
    /\ failed_at = "call_tool"
    /\ tool_steps = 1
    /\ Len(inputs) >= 4

Answers(conv, i) ==
    LET j == conv[i].tool_call_id
    IN  /\ i > j
        /\ conv[i - j].role = "assistant"
        /\ j <= Len(conv[i - j].tool_calls)
        /\ conv[i - j].tool_calls[j] = j
        /\ \A k \in 1..(j - 1) : conv[i - k].role = "tool" /\ conv[i - k].tool_call_id = j - k

\* C9 as stated: in a stored conversation every tool-result turn comes right after
\* an assistant turn that declared its call.
C9_ResultRightAfterRequest ==
    \A i \in 1..Len(history) :
        history[i].role = "tool" =>
            /\ i > 1
            /\ history[i - 1].role = "assistant"
            /\ \E j \in 1..Len(history[i - 1].tool_calls) :
                history[i - 1].tool_calls[j] = history[i].tool_call_id

\* C9 amended: in every stored conversation, and in every conversation of a run,
\* each tool-result turn belongs to the block of tool-result turns that follows
\* right after the assistant turn declaring its call, the j-th result of the block
\* answering the j-th declared call; so no block begins the conversation or follows
\* a user turn, a system turn or an assistant turn without tool calls.
C9_ResultsFollowRequest ==
    /\ \A i \in 1..Len(history) : history[i].role = "tool" => Answers(history, i)
    /\ \A i \in 1..Len(messages) : messages[i].role = "tool" => Answers(messages, i)

C9_Witness ==
    /\ pc = "input"
    /\ \E i \in 2..Len(history) :
        /\ history[i].role = "tool"
        /\ history[i].tool_call_id = 2
        /\ history[i - 1].role = "tool"

\* C10: a run from n turns ending in a user turn, in which each of k completion
\* responses declared one tool call, ends with n + 2k + 1 turns: the input, then k
\* times (assistant with one call, its tool result), then one assistant turn
\* without tool calls.
C10_RunShape ==
    LET n == Len(inputs)
        k == tool_steps
    IN  (/\ pc = "END"
         /\ \A i \in (n + 1)..Len(messages) : Len(messages[i].tool_calls) <= 1) =>
            /\ Last(inputs) = HumanMessage
            /\ llm_calls = k + 1
            /\ tool_execs = k
            /\ Len(messages) = n + 2 * k + 1
            /\ SubSeq(messages, 1, n) = inputs
            /\ \A r \in 1..k :
                /\ messages[n + 2 * r - 1] = AIMessage(1)
                /\ messages[n + 2 * r] = ToolMessage(1)
            /\ messages[n + 2 * k + 1] = AIMessage(0)

C10_Witness ==
    /\ pc = "END"
    /\ Len(inputs) = 3
    /\ tool_steps = 2
    /\ Len(messages) = 8
    /\ \A i \in 1..Len(messages) : Len(messages[i].tool_calls) <= 1

\* C11: applied to an assistant turn whose content is a list of blocks beginning
\* with a dict, get_ai_response_content returns the text field of the first block
\* (the empty string if that block has none); applied to one whose content is a
\* plain string it returns that string unchanged; and get_content_from_message
\* returns the same as get_ai_response_content on every assistant turn.
C11_Extraction ==
    LET c == probe.msg.content
    IN  /\ probe.nb_done =>
            /\ (c.kind = "list" /\ Len(c.blocks) >= 1 /\ c.blocks[1].kind = "dict") =>
                /\ probe.nb.kind = "str"
                /\ c.blocks[1].has_text => probe.nb.text = c.blocks[1].text
                /\ ~c.blocks[1].has_text => probe.nb.text = ""
            /\ c.kind = "str" => probe.nb = c
        /\ (probe.nb_done /\ probe.ui_done) => probe.nb = probe.ui

C11_Witness ==
    /\ probe.nb_done
    /\ probe.ui_done
    /\ probe.msg.role = "assistant"
    /\ probe.msg.content = List(<<TextBlock("a"), TextBlock("b")>>)
    /\ probe.nb = Str("a")
    /\ probe.ui = Str("a")

\* The program is back at the prompt right after a summarization: messages is the
\* conversation that was summarized, summarizer_prompt the prompt that was sent.
JustSummarized == variant = "summary" /\ pc = "input" /\ sum_calls = 1

\* C12 as stated: after a summarization the stored conversation is one system turn
\* whose content is "This is a summary of the previous conversation: " followed by
\* the summary text.
C12_SummaryTurnContent ==
    JustSummarized =>
        history = <<SystemMessage(
            Str("This is a summary of the previous conversation: " \o summary_text.text))>>

\* Positions of the human and assistant turns of a conversation.
Spoken(conv) == {i \in 1..Len(conv) : conv[i].role \in {"user", "assistant"}}

\* C13: the transcript sent to the summarizer has exactly one line per human turn
\* and per assistant turn of the stored conversation, in conversation order
\* ("Human" with the turn's content, "AI" with the extracted text), and no line
\* for a tool-result turn or any other turn.
C13_Transcript ==
    JustSummarized =>
        LET T == summarizer_prompt.human
        IN  /\ Len(T) = Cardinality(Spoken(messages))
            /\ \A i \in Spoken(messages) :
                LET k == Cardinality({j \in Spoken(messages) : j <= i})
                IN  /\ T[k].speaker = IF messages[i].role = "user" THEN "Human" ELSE "AI"
                    /\ T[k].text = IF messages[i].role = "user"
                                   THEN messages[i].content
                                   ELSE Str("text")
            /\ \A k \in 1..Len(T) : T[k].speaker \in {"Human", "AI"}

C13_Witness ==
    /\ JustSummarized
    /\ summaries = 2
    /\ format = "blocks"
    /\ messages[1].role = "system"
    /\ \E i \in 1..Len(messages) : messages[i].role = "tool"
    /\ Len(summarizer_prompt.human) < Len(messages) - 1

UIRaises == variant = "ui" /\ failed_at = "none" /\ failed_at' # "none"

\* C15: in the UI, a turn starts by storing the pre-turn conversation followed by
\* the new user turn; when a call then raises (in the graph's completion call, in
\* a tool call, or while the output is streamed) the stored conversation is left
\* exactly so, with nothing of the run in it and the user turn still there; and the
\* turn that follows a failed turn sends a conversation ending in two user turns.
C15_FailedTurnLeavesUserTurn ==
    /\ [][(variant = "ui" /\ pc = "input" /\ pc' # "input") =>
            /\ history' = Append(history, HumanMessage)
            /\ inputs' = history']_vars
    /\ [][UIRaises =>
            /\ pc \in {"llm", "call_tool", "END"}
            /\ pc' = "input"
            /\ history' = history
            /\ history' = inputs]_vars
    /\ [](variant = "ui" /\ failed_at # "none" =>
            /\ pc = "input"
            /\ history = inputs
            /\ Last(history) = HumanMessage)
    /\ [][(variant = "ui" /\ failed_at # "none" /\ pc' = "llm") =>
            /\ Len(messages') >= 2
            /\ messages'[Len(messages')].role = "user"
            /\ messages'[Len(messages') - 1].role = "user"]_vars

C15_Witness ==
    /\ variant = "ui"
    /\ pc = "llm"
    /\ llm_calls = 0
    /\ Len(messages) >= 5
    /\ messages[Len(messages)].role = "user"
    /\ messages[Len(messages) - 1].role = "user"
    /\ messages[Len(messages) - 2].role = "assistant"

\* C16: in the summary variant the stored conversation has fewer than 12 turns
\* whenever the program waits for input, and from the first summarization on it is
\* never empty and begins with the summary turn of the latest summarization.
C16_BelowThresholdAtPrompt ==
    variant = "summary" =>
        /\ pc = "input" => Len(history) < 12
        /\ summaries >= 1 =>
            /\ Len(history) >= 1
            /\ history[1].role = "system"
            /\ history[1].content = Str(SUMMARY_PREFIX \o summary_text.text)
            /\ summary_text.text \in SummaryTexts

C16_Witness ==
    /\ variant = "summary"
    /\ pc = "input"
    /\ summaries = 2
    /\ Len(history) = 11

\* What a summary can look like in a conversation: the text, or its system turn.
SummaryContents ==
    {Str(t) : t \in SummaryTexts} \cup {Str(SUMMARY_PREFIX \o t) : t \in SummaryTexts}

\* C17: from the second summarization on, the conversation that is summarized
\* begins with the previous summary's system turn, and the prompt sent holds the
\* fixed instruction and one line for each human and assistant turn after that
\* turn, none of them the previous summary: summary_text and the system turn are
\* not put into the prompt.
C17_PreviousSummaryNotSent ==
    (JustSummarized /\ summaries >= 2) =>
        LET T == summarizer_prompt.human
        IN  /\ messages[1].role = "system"
            /\ messages[1].content \in SummaryContents
            /\ summarizer_prompt.system = SUMMARIZER_INSTRUCTION
            /\ Len(T) = Cardinality(Spoken(Tail(messages)))
            /\ \A k \in 1..Len(T) :
                /\ T[k].speaker \in {"Human", "AI"}
                /\ T[k].text \notin SummaryContents

C17_Witness ==
    /\ JustSummarized
    /\ summaries = 2
    /\ Len(summarizer_prompt.human) >= 6
    /\ messages[1].content \in SummaryContents
    /\ summary_text.text = "s2"

====
